---- MODULE Spec2Model ----
(***************************************************************************)
(* First-boot wizard of emcomm-tools (et-firstboot.py): the removable      *)
(* volume probe, the drive step, the three download endpoints and the      *)
(* page scripts that drive them one item at a time.                        *)
(*                                                                         *)
(* A behaviour follows one download category (cat): the three categories   *)
(* use separate directories and separate endpoints, so the files of the    *)
(* other two are not part of the state, and the pages that belong to them  *)
(* are passed through.  Requests are those the wizard's own pages issue.   *)
(*                                                                         *)
(* SpecDrive  the drive step: page script, drive checks, the form's POST,  *)
(*            up to the first download request of the page that follows.   *)
(* Spec       the download steps against the destination the drive step    *)
(*            left in the session: page scripts, endpoints, transfers.     *)
(* SpecProbe  check_path_writable one filesystem call at a time, with the  *)
(*            volume free to change between the calls.                     *)
(***************************************************************************)
EXTENDS Integers, Sequences, FiniteSets, TLC

VARIABLES
    cat,        \* the download category this behaviour follows
    vol,        \* vol[p]: state of the removable volume mounted at path p
    sentinel,   \* sentinel[p]: p/.emcomm-write-test exists
    udirs,      \* udirs[p]: category subdirectories that exist on volume p
    files,      \* files[root][i]: the file of item i in the category's directory under root
    session,    \* the Flask session: drive_type, usb_path, selected item list
    page,       \* the page the window shows
    ui,         \* drive page script: currentDriveType, usbValidated, validatedUsbPath,
                \* lastCheckedPath, the form's usb_path input, the Next button
    probes,     \* /api/drive/check fetches of the drive page that are unanswered
    avail,      \* selection page: items offered as selectable when the page was loaded
    batch,      \* progress page script: list, index, status list, progress, Next button
    net,        \* the download fetch of the progress page: request or response in flight
    xfers,      \* transfers (curl processes) the server is running
    fresh,      \* history: paths probed writable with no volume change since
    probedOk,   \* history: paths for which a probe has answered true in this session
    chosen,     \* history: the destination root of the operator's last drive submit
    pr,         \* SpecProbe: the probe in progress, one filesystem call at a time
    fin,        \* SpecFinal: launch, completion marker, local directory entries
    call,       \* SpecCall: destinations resolved and the last endpoint call's answer
    conf        \* SpecConf: radios.d with its active pointer, user.json, last answers

vars == <<cat, vol, sentinel, udirs, files, session, page, ui, probes, avail,
          batch, net, xfers, fresh, probedOk, chosen, pr, fin, call, conf>>

----------------------------------------------------------------------------
(* Bounds and program constants *)

\* number of entries the remote listing offers on a selection page
MaxSel == 2

\* len(TILE_FILES)
TileCount == 3

\* api_download_osm: dest_file.stat().st_size < 1000
MinPbfBytes == 1000

Cats == {"tile", "osm", "wiki"}

UsbPaths == {"/media/user/USB1", "/media/user/USB2"}

\* where a category directory can be: the home directory, a volume, or the
\* process's working directory (Path('') / "tilesets" is a relative path)
Roots == {"home", "cwd"} \cup UsbPaths

VolStates == {"rw", "ro", "gone"}

TILE_FILES == [i \in 1..TileCount |-> i]

Max(a, b) == IF a > b THEN a ELSE b

ItemIds == 1..Max(TileCount, MaxSel)

\* the items a category can name: the fixed tile list, or the remote listing
Catalog(c) == IF c = "tile" THEN 1..TileCount ELSE 1..MaxSel

----------------------------------------------------------------------------
(* Filesystem *)

NoFile == [there |-> FALSE, bytes |-> 0, whole |-> FALSE]

PartFile == [there |-> TRUE, bytes |-> 1, whole |-> FALSE]

WholeFile(n) == [there |-> TRUE, bytes |-> n, whole |-> TRUE]

\* sizes a completed transfer can leave (one under, one at the region minimum)
WholeSizes == {MinPbfBytes - 1, MinPbfBytes}

\* Path.touch() of the sentinel in a volume in state v
touch(v, s) ==
    CASE v = "rw"   -> [exc |-> "none", sentinel |-> TRUE]
      [] v = "ro"   -> [exc |-> "OSError", sentinel |-> s]
      [] v = "gone" -> [exc |-> "FileNotFoundError", sentinel |-> s]

\* Path.unlink() of the sentinel in a volume in state v
unlink(v, s) ==
    CASE v = "rw" /\ s   -> [exc |-> "none", sentinel |-> FALSE]
      [] v = "rw" /\ ~s  -> [exc |-> "FileNotFoundError", sentinel |-> s]
      [] v = "ro"        -> [exc |-> "OSError", sentinel |-> s]
      [] v = "gone"      -> [exc |-> "FileNotFoundError", sentinel |-> s]

\* except (PermissionError, OSError, IOError): ... except Exception: ...
ProbeCatches_OnlyPermission(exc) == exc = "PermissionError"

ProbeCatches(exc) ==
    \/ exc \in {"PermissionError", "OSError", "FileNotFoundError"}
    \/ exc \in {"ValueError"}

\* what follows test_file.touch(): unlink on success, the except clause otherwise
AfterTouch(exc) == IF exc = "none" THEN "unlink" ELSE "except"

\* check_path_writable(path) with the volume in state v throughout
check_path_writable(path, v, s) ==
    IF path = ""
    THEN [ret |-> FALSE, sentinel |-> s]
    ELSE LET t == touch(v, s) IN
         IF AfterTouch(t.exc) = "unlink"
         THEN LET u == unlink(v, t.sentinel) IN
              [ret |-> u.exc = "none", sentinel |-> u.sentinel]
         ELSE [ret |-> FALSE, sentinel |-> t.sentinel]

----------------------------------------------------------------------------
(* SpecProbe: check_path_writable, one filesystem call at a time *)

ProbePaths == UsbPaths \cup {""}

PrIdle == [pc |-> "idle", path |-> "", ret |-> "none", escaped |-> FALSE,
           created |-> FALSE, removal |-> "none", before |-> FALSE]

\* the parts of the wizard that SpecProbe leaves alone
wizardVars == <<cat, udirs, files, session, page, ui, probes, avail, batch, net,
                xfers, fresh, probedOk, chosen, fin, call, conf>>

\* if not path: return False; test_file = Path(path) / ".emcomm-write-test"
PCall(path) ==
    /\ pr.pc = "idle"
    /\ pr' = IF path = ""
             THEN [PrIdle EXCEPT !.pc = "done", !.ret = "false"]
             ELSE [PrIdle EXCEPT !.pc = "touch", !.path = path,
                                 !.before = sentinel[path]]
    /\ UNCHANGED <<vol, sentinel, wizardVars>>

\* try: test_file.touch()
PTouch ==
    /\ pr.pc = "touch"
    /\ LET t == touch(vol[pr.path], sentinel[pr.path]) IN
       /\ sentinel' = [sentinel EXCEPT ![pr.path] = t.sentinel]
       /\ pr' = CASE AfterTouch(t.exc) = "unlink" ->
                       [pr EXCEPT !.pc = "unlink", !.created = (t.exc = "none")]
                  [] AfterTouch(t.exc) = "except" /\ ~ProbeCatches(t.exc) ->
                       [pr EXCEPT !.pc = "done", !.escaped = TRUE]
                  [] OTHER ->
                       [pr EXCEPT !.pc = "done", !.ret = "false",
                                  !.created = (t.exc = "none")]
    /\ UNCHANGED <<vol, wizardVars>>

\* test_file.unlink(); return True
PUnlink ==
    /\ pr.pc = "unlink"
    /\ LET u == unlink(vol[pr.path], sentinel[pr.path]) IN
       /\ sentinel' = [sentinel EXCEPT ![pr.path] = u.sentinel]
       /\ pr' = IF u.exc = "none"
                THEN [pr EXCEPT !.pc = "done", !.ret = "true", !.removal = "ok"]
                ELSE IF ProbeCatches(u.exc)
                     THEN [pr EXCEPT !.pc = "done", !.ret = "false",
                                     !.removal = "failed"]
                     ELSE [pr EXCEPT !.pc = "done", !.escaped = TRUE,
                                     !.removal = "failed"]
    /\ UNCHANGED <<vol, wizardVars>>

\* the caller has the result; the next probe can start
PReturn ==
    /\ pr.pc = "done"
    /\ pr' = PrIdle
    /\ UNCHANGED <<vol, sentinel, wizardVars>>

\* the operator locks, unlocks, unplugs or plugs the volume at p
PVolChange(p, v) ==
    /\ v # vol[p]
    /\ vol' = [vol EXCEPT ![p] = v]
    /\ UNCHANGED <<sentinel, pr, wizardVars>>

----------------------------------------------------------------------------
(* Session and destination resolution *)

NoSession == [drive_type |-> "none", usb_path |-> "", sel |-> <<>>]

\* Path(session.get('usb_path', '')): the empty path is the working directory
UsbRoot(s) == IF s.usb_path = "" THEN "cwd" ELSE s.usb_path

\* if session.get('drive_type') == 'usb': Path(usb_path) / sub  else: the home directory
DestRoot(s) == IF s.drive_type = "usb" THEN UsbRoot(s) ELSE "home"

Mounted(root) == IF root \in UsbPaths THEN vol[root] # "gone" ELSE TRUE

\* dest_file.exists()
Exists(root, i) == Mounted(root) /\ files[root][i].there

CanWrite(root) == IF root \in UsbPaths THEN vol[root] = "rw" ELSE TRUE

\* dest_dir.mkdir(parents=True, exist_ok=True): "ok", or the exception raised.
\* An unmounted volume's mount point is gone and /media/<user> is not writable.
MkdirDest(root) ==
    IF root \notin UsbPaths THEN "ok"
    ELSE CASE vol[root] = "rw"   -> "ok"
           [] vol[root] = "ro"   -> IF cat \in udirs[root] THEN "ok" ELSE "OSError"
           [] vol[root] = "gone" -> "PermissionError"

\* the directories a successful mkdir leaves on the volumes
AfterMkdir(root) ==
    IF root \in UsbPaths /\ CanWrite(root)
    THEN [udirs EXCEPT ![root] = @ \cup {cat}]
    ELSE udirs

----------------------------------------------------------------------------
(* Messages between a progress page and its download endpoint *)

NoMsg == [kind |-> "none", item |-> 0, success |-> FALSE, skipped |-> FALSE,
          error |-> "", cause |-> ""]

Req(i) == [NoMsg EXCEPT !.kind = "req", !.item = i]

\* jsonify({'success': True, 'skipped': True, 'message': 'File already exists'})
Skipped(i) == [NoMsg EXCEPT !.kind = "rsp", !.item = i, !.success = TRUE,
                            !.skipped = TRUE]

\* jsonify({'success': True})
Success(i) == [NoMsg EXCEPT !.kind = "rsp", !.item = i, !.success = TRUE]

\* jsonify({'success': False, 'error': msg}); cause names the branch that answered
Failure(i, msg, cause) == [NoMsg EXCEPT !.kind = "rsp", !.item = i, !.error = msg,
                                        !.cause = cause]

\* an exception left the handler: Flask answers 500 with an HTML body
Http500(i, exc) == [NoMsg EXCEPT !.kind = "http500", !.item = i, !.cause = exc]

----------------------------------------------------------------------------
(* Page scripts *)

NoBatch == [list |-> <<>>, idx |-> 0, status |-> <<>>, progress |-> 0,
            nextOn |-> FALSE, asked |-> <<>>]

\* the progress page as rendered: every item pending, Next disabled
NewBatch(list) ==
    [list |-> list, idx |-> 0, status |-> [i \in 1..Len(list) |-> "pending"],
     progress |-> 0, nextOn |-> FALSE, asked |-> [i \in 1..Len(list) |-> 0]]

\* downloadFile(index) up to its fetch: the script state and the request issued
downloadFile_NextAtOnce(b, index) ==
    IF index >= Len(b.list)
    THEN [b |-> [b EXCEPT !.idx = index, !.nextOn = TRUE], msg |-> NoMsg]
    ELSE [b |-> [b EXCEPT !.idx = index, !.status[index + 1] = "active",
                          !.asked[index + 1] = @ + 1, !.nextOn = TRUE],
          msg |-> Req(b.list[index + 1])]

downloadFile(b, index) ==
    IF index >= Len(b.list)
    THEN [b |-> [b EXCEPT !.idx = index, !.nextOn = TRUE], msg |-> NoMsg]
    ELSE [b |-> [b EXCEPT !.idx = index, !.status[index + 1] = "active",
                          !.asked[index + 1] = @ + 1],
          msg |-> Req(b.list[index + 1])]

\* the index downloadFile calls itself with after an item has resolved
NextIndex_SkipOne(index) == index + 2

NextIndex(index) == index + 1

\* the status the script shows for an answer: tiles and regions accept
\* success or skipped, archives accept success
ItemStatus(c, m) ==
    IF m.kind = "rsp" /\ (m.success \/ (c # "wiki" /\ m.skipped))
    THEN IF m.skipped THEN "exists" ELSE "done"
    ELSE "error"

\* downloadFile(index) after its fetch has settled with m (an answer, or a
\* body that is not JSON, which lands in the catch block)
OnAnswer_StopOnError(c, b, m) ==
    LET b1 == [b EXCEPT !.status[b.idx + 1] = ItemStatus(c, m),
                        !.progress = b.idx + 1]
    IN  IF ItemStatus(c, m) = "error"
        THEN [b |-> b1, msg |-> NoMsg]
        ELSE downloadFile(b1, NextIndex(b.idx))

OnAnswer(c, b, m) ==
    LET b1 == [b EXCEPT !.status[b.idx + 1] = ItemStatus(c, m),
                        !.progress = b.idx + 1]
    IN  downloadFile(b1, NextIndex(b.idx))

\* get_usb_drives(): the mounted removable volumes
get_usb_drives == {p \in UsbPaths : vol[p] # "gone"}

\* updateNextButton()
updateNextButton(u) ==
    [u EXCEPT !.nextOn = (u.type = "local") \/ (u.validated /\ u.vpath # "")]

\* the drive page as rendered and initialised by selectDriveType('local')
DrivePage(err) ==
    [type |-> "local", validated |-> FALSE, vpath |-> "", input |-> "",
     last |-> "", nextOn |-> TRUE, err |-> err, drives |-> get_usb_drives]

NoUi == [type |-> "local", validated |-> FALSE, vpath |-> "", input |-> "",
         last |-> "", nextOn |-> FALSE, err |-> FALSE, drives |-> {}]

\* transfers keep running when the page that asked for them is left
Orphaned(X) == {[x EXCEPT !.live = FALSE] : x \in X}

\* items the selection page offers unticked: those not found in the
\* destination when the page was loaded (regions: the destination directory;
\* archives: the volume's directory and the local one)
Selectable(s) ==
    {i \in Catalog(cat) :
        IF cat = "wiki"
        THEN ~(s.drive_type = "usb" /\ Exists(UsbRoot(s), i)) /\ ~Exists("home", i)
        ELSE ~Exists(DestRoot(s), i)}

\* the ticked items in page order
RECURSIVE Ascending(_)
Ascending(S) ==
    IF S = {} THEN <<>>
    ELSE LET m == CHOOSE x \in S : \A y \in S : x <= y
         IN  <<m>> \o Ascending(S \ {m})

----------------------------------------------------------------------------
(* Navigation: what the window shows next *)

ShowDrive(err) ==
    /\ page' = "drive"
    /\ ui' = DrivePage(err)
    /\ probes' = {}
    /\ avail' = {}
    /\ batch' = NoBatch
    /\ net' = NoMsg
    /\ xfers' = Orphaned(xfers)

ShowSelect ==
    /\ page' = "select"
    /\ ui' = NoUi
    /\ probes' = {}
    /\ avail' = Selectable(session')
    /\ batch' = NoBatch
    /\ net' = NoMsg
    /\ xfers' = Orphaned(xfers)

\* the progress page loads and its script calls downloadFile(0)
ShowProgress(list) ==
    /\ page' = "progress"
    /\ ui' = NoUi
    /\ probes' = {}
    /\ avail' = {}
    /\ batch' = downloadFile(NewBatch(list), 0).b
    /\ net' = downloadFile(NewBatch(list), 0).msg
    /\ xfers' = Orphaned(xfers)

ShowAfter ==
    /\ page' = "after"
    /\ ui' = NoUi
    /\ probes' = {}
    /\ avail' = {}
    /\ batch' = NoBatch
    /\ net' = NoMsg
    /\ xfers' = Orphaned(xfers)

\* redirect(url_for('download_tiles')): the tiles page, or (passing through
\* the pages of the categories before it) the category's selection page
EnterDownloads ==
    IF cat = "tile" THEN ShowProgress(TILE_FILES) ELSE ShowSelect

----------------------------------------------------------------------------
(* Drive step *)

\* bound: drive checks the drive page has asked for and not yet handled
MaxProbes == 2

downloadVars == <<avail, batch, net, xfers, files>>

\* selectDriveType(type)
selectDriveType(t) ==
    /\ page = "drive"
    /\ ui' = updateNextButton([ui EXCEPT !.type = t])
    /\ UNCHANGED <<cat, vol, sentinel, udirs, session, page, probes, fresh,
                   probedOk, chosen, pr, fin, call, downloadVars, conf>>

\* selectUsbDrive(path, element) up to its fetch of /api/drive/check
selectUsbDrive(p) ==
    /\ page = "drive"
    /\ ui.type = "usb"
    /\ p \in ui.drives
    /\ Cardinality(probes) < MaxProbes
    /\ ui' = updateNextButton([ui EXCEPT !.validated = FALSE, !.vpath = "",
                                         !.input = "", !.last = p])
    /\ probes' = probes \cup {[path |-> p, st |-> "sent"]}
    /\ UNCHANGED <<cat, vol, sentinel, udirs, session, page, fresh, probedOk,
                   chosen, pr, fin, call, downloadVars, conf>>

\* api_check_drive(): the probe and its answer
api_check_drive(q) ==
    /\ q \in probes
    /\ q.st = "sent"
    /\ LET r == check_path_writable(q.path, vol[q.path], sentinel[q.path]) IN
       /\ sentinel' = [sentinel EXCEPT ![q.path] = r.sentinel]
       /\ probes' = (probes \ {q}) \cup
                    {[q EXCEPT !.st = IF r.ret THEN "writable" ELSE "locked"]}
       /\ fresh' = IF r.ret THEN fresh \cup {q.path} ELSE fresh
       /\ probedOk' = IF r.ret THEN probedOk \cup {q.path} ELSE probedOk
    /\ UNCHANGED <<cat, vol, udirs, session, page, ui, chosen, pr, fin, call, downloadVars, conf>>

\* selectUsbDrive after its fetch has answered
probeAnswered(q) ==
    /\ q \in probes
    /\ q.st # "sent"
    /\ probes' = probes \ {q}
    /\ ui' = updateNextButton(
                IF q.st = "writable"
                THEN [ui EXCEPT !.validated = TRUE, !.vpath = q.path,
                                !.input = q.path]
                ELSE [ui EXCEPT !.validated = FALSE, !.vpath = ""])
    /\ UNCHANGED <<cat, vol, sentinel, udirs, session, page, fresh, probedOk,
                   chosen, pr, fin, call, downloadVars, conf>>

\* the root the operator asks for with the form as it stands
FormRoot == IF ui.type = "usb" THEN ui.input ELSE "home"

\* whether drive_setup stops at a failed probe
StopsOnLockedDrive_Never(writable) == FALSE

StopsOnLockedDrive(writable) == ~writable

\* drive_setup() POST, from the form to the end of the write check:
\* session['drive_type'] is stored first, then the path is probed
drive_setup ==
    /\ page = "drive"
    /\ ui.nextOn
    /\ chosen' = FormRoot
    /\ UNCHANGED <<cat, vol, udirs, files, pr, fin, call, conf>>
    /\ IF ui.type = "usb" /\ ui.input # ""
       THEN LET r == check_path_writable(ui.input, vol[ui.input], sentinel[ui.input]) IN
            /\ sentinel' = [sentinel EXCEPT ![ui.input] = r.sentinel]
            /\ fresh' = IF r.ret THEN fresh \cup {ui.input} ELSE fresh
            /\ probedOk' = IF r.ret THEN probedOk \cup {ui.input} ELSE probedOk
            /\ IF StopsOnLockedDrive(r.ret)
               THEN /\ session' = [session EXCEPT !.drive_type = ui.type]
                    /\ ShowDrive(TRUE)
               ELSE /\ session' = [session EXCEPT !.drive_type = ui.type,
                                                  !.usb_path = ui.input]
                    /\ page' = "mkdirs"
                    /\ probes' = {}
                    /\ UNCHANGED <<ui, avail, batch, net, xfers>>
       ELSE /\ session' = [session EXCEPT !.drive_type = ui.type]
            /\ UNCHANGED <<sentinel, fresh, probedOk>>
            /\ EnterDownloads

\* drive_setup() POST, the rest: the three mkdir(exist_ok=True) and the answer
drive_setup_mkdirs ==
    /\ page = "mkdirs"
    /\ UNCHANGED <<cat, vol, sentinel, files, session, fresh, probedOk, chosen, pr, fin, call, conf>>
    /\ LET p == session.usb_path IN
       IF vol[p] = "rw" \/ (vol[p] = "ro" /\ udirs[p] = Cats)
       THEN /\ udirs' = IF vol[p] = "rw" THEN [udirs EXCEPT ![p] = Cats] ELSE udirs
            /\ EnterDownloads
       ELSE /\ udirs' = udirs
            /\ ShowDrive(TRUE)

\* Back to the internet step and Next again: the drive page is rendered anew
reloadDrive ==
    /\ page = "drive"
    /\ ui # DrivePage(FALSE)
    /\ ShowDrive(FALSE)
    /\ UNCHANGED <<cat, vol, sentinel, udirs, files, session, fresh, probedOk,
                   chosen, pr, fin, call, conf>>

\* the operator locks, unlocks, unplugs or plugs the volume at p
VolChange(p, v) ==
    /\ v # vol[p]
    /\ vol' = [vol EXCEPT ![p] = v]
    /\ fresh' = fresh \ {p}
    /\ UNCHANGED <<cat, sentinel, udirs, files, session, page, ui, probes, avail,
                   batch, net, xfers, probedOk, chosen, pr, fin, call, conf>>

----------------------------------------------------------------------------
(* Selection pages of the region and archive categories *)

\* download_osm() / download_wiki() POST: the ticked items become the batch;
\* with nothing ticked, and for the Skip button, the next step follows
submitSelection(S) ==
    /\ page = "select"
    /\ S \subseteq avail
    /\ UNCHANGED <<cat, vol, sentinel, udirs, files, fresh, probedOk, chosen, pr, fin, call, conf>>
    /\ IF S # {}
       THEN /\ session' = [session EXCEPT !.sel = Ascending(S)]
            /\ ShowProgress(Ascending(S))
       ELSE /\ session' = session
            /\ ShowAfter

----------------------------------------------------------------------------
(* Download endpoints *)

\* curl exit codes of a failed transfer: the server refuses (22), the write
\* fails (23), the connection breaks (56)
FailCodes == {22, 23, 56}

Generic(code) == "Download failed (error " \o ToString(code) \o ")"

TileError_Generic(code) == Generic(code)

\* error_messages of api_download_tile and api_download_wiki
TileError(code) ==
    CASE code = 6  -> "No internet connection"
      [] code = 7  -> "Server not responding"
      [] code = 22 -> "File not found on server"
      [] code = 23 -> "Disk full - free up space"
      [] code = 28 -> "Connection timeout"
      [] code = 56 -> "Network error - try again"
      [] OTHER     -> Generic(code)

\* error_messages of api_download_osm; curl's stderr names a file it could not open
OsmError(code, openFailed) ==
    CASE openFailed -> "Cannot create file - check drive permissions"
      [] code = 6   -> "No internet connection - check your network"
      [] code = 7   -> "Server not responding - try again later"
      [] code = 22  -> "File not found on server"
      [] code = 23  -> "Disk full or write error - free up space"
      [] code = 28  -> "Download too slow - connection timeout"
      [] code = 35  -> "SSL/TLS connection failed"
      [] code = 52  -> "Server returned empty response"
      [] code = 56  -> "Network error during download - try again"
      [] OTHER      -> Generic(code)

TimedOut == "Download timed out (30 min limit)"

NewXfer(i, root) == [item |-> i, root |-> root, phase |-> "started", live |-> TRUE]

\* whether the endpoints answer skipped for a file that is there
SkipsExisting_Never(there) == FALSE

SkipsExisting(there) == there

\* the part the tile and archive endpoints share: destination, mkdir, skip
\* check, then curl is started; an mkdir that raises leaves the handler
BeginPlain ==
    LET i == net.item
        root == DestRoot(session)
    IN  IF MkdirDest(root) # "ok"
        THEN /\ net' = Http500(i, MkdirDest(root))
             /\ UNCHANGED <<udirs, xfers>>
        ELSE /\ udirs' = AfterMkdir(root)
             /\ IF SkipsExisting(Exists(root, i))
                THEN /\ net' = Skipped(i)
                     /\ xfers' = xfers
                ELSE /\ net' = NoMsg
                     /\ xfers' = xfers \cup {NewXfer(i, root)}

\* api_download_tile() up to subprocess.run
api_download_tile ==
    /\ cat = "tile"
    /\ net.kind = "req"
    /\ IF net.item \notin Catalog("tile")
       THEN /\ net' = Failure(net.item, "Invalid file", "invalid")
            /\ UNCHANGED <<udirs, xfers>>
       ELSE BeginPlain
    /\ UNCHANGED <<cat, vol, sentinel, files, session, page, ui, probes, avail,
                   batch, fresh, probedOk, chosen, pr, fin, call, conf>>

\* api_download_wiki() up to subprocess.run
api_download_wiki ==
    /\ cat = "wiki"
    /\ net.kind = "req"
    /\ BeginPlain
    /\ UNCHANGED <<cat, vol, sentinel, files, session, page, ui, probes, avail,
                   batch, fresh, probedOk, chosen, pr, fin, call, conf>>

\* api_download_osm() up to subprocess.run
api_download_osm ==
    /\ cat = "osm"
    /\ net.kind = "req"
    /\ LET i == net.item
           root == DestRoot(session)
       IN  IF session.drive_type = "usb" /\ session.usb_path = ""
           THEN /\ net' = Failure(i, "USB path not set", "nopath")
                /\ UNCHANGED <<udirs, xfers>>
           ELSE IF MkdirDest(root) # "ok"
           THEN /\ net' = Failure(i, "Cannot create directory", "mkdir")
                /\ UNCHANGED <<udirs, xfers>>
           ELSE /\ udirs' = AfterMkdir(root)
                /\ IF SkipsExisting(Exists(root, i))
                   THEN /\ net' = Skipped(i)
                        /\ xfers' = xfers
                   ELSE /\ net' = NoMsg
                        /\ xfers' = xfers \cup {NewXfer(i, root)}
    /\ UNCHANGED <<cat, vol, sentinel, files, session, page, ui, probes, avail,
                   batch, fresh, probedOk, chosen, pr, fin, call, conf>>

\* curl creates the output file and writes the first part of the body
curlWrites(x) ==
    /\ x \in xfers
    /\ x.phase = "started"
    /\ CanWrite(x.root)
    /\ files' = [files EXCEPT ![x.root][x.item] = PartFile]
    /\ xfers' = (xfers \ {x}) \cup {[x EXCEPT !.phase = "writing"]}
    /\ UNCHANGED <<cat, vol, sentinel, udirs, session, page, ui, probes, avail,
                   batch, net, fresh, probedOk, chosen, pr, fin, call, conf>>

\* how a transfer can end: curl's exit code, or subprocess.run's timeout
\* (the tile endpoint passes none)
Outcomes(c, x) ==
    {[kind |-> "exit", code |-> 0, bytes |-> n] :
        n \in IF CanWrite(x.root)
              THEN (IF c = "osm" THEN WholeSizes ELSE {MinPbfBytes})
              ELSE {}}
    \cup {[kind |-> "exit", code |-> k, bytes |-> 0] :
            k \in IF x.phase = "started" THEN FailCodes ELSE FailCodes \ {22}}
    \cup IF c = "tile" THEN {} ELSE {[kind |-> "timeout", code |-> 0, bytes |-> 0]}

\* the file curl leaves
CurlFile(o, f) == IF o.kind = "exit" /\ o.code = 0 THEN WholeFile(o.bytes) ELSE f

\* api_download_tile() after subprocess.run: file left and answer
tile_after_curl(i, root, o, f) ==
    [file |-> f,
     msg  |-> IF o.code = 0 THEN Success(i)
              ELSE Failure(i, TileError(o.code), "exit")]

\* api_download_wiki() after subprocess.run: file left and answer
wiki_after_curl(i, root, o, f) ==
    [file |-> f,
     msg  |-> IF o.kind = "timeout" THEN Failure(i, TimedOut, "timeout")
              ELSE IF o.code = 0 THEN Success(i)
              ELSE Failure(i, TileError(o.code), "exit")]

osm_cleanup_Keeps(i, root, f, m, inExcept) == [file |-> f, msg |-> m]

\* if dest_file.exists(): dest_file.unlink(), then the answer m; an unlink
\* that raises is caught by the handler's except Exception, unless it is
\* raised inside the TimeoutExpired clause
osm_cleanup(i, root, f, m, inExcept) ==
    IF ~(Mounted(root) /\ f.there) THEN [file |-> f, msg |-> m]
    ELSE IF CanWrite(root) THEN [file |-> NoFile, msg |-> m]
    ELSE [file |-> f,
          msg  |-> IF inExcept THEN Http500(i, "OSError")
                   ELSE Failure(i, "[Errno 30] Read-only file system", "exception")]

\* api_download_osm() after subprocess.run: file left and answer
osm_after_curl(i, root, o, f) ==
    IF o.kind = "timeout"
    THEN osm_cleanup(i, root, f, Failure(i, TimedOut, "timeout"), TRUE)
    ELSE IF o.code # 0
    THEN osm_cleanup(i, root, f,
                     Failure(i, OsmError(o.code, o.code = 23 /\ ~CanWrite(root)), "exit"),
                     FALSE)
    ELSE IF ~(Mounted(root) /\ f.there) \/ f.bytes < MinPbfBytes
    THEN osm_cleanup(i, root, f, Failure(i, "Download incomplete", "incomplete"), FALSE)
    ELSE [file |-> f, msg |-> Success(i)]

after_curl(c, i, root, o, f) ==
    CASE c = "tile" -> tile_after_curl(i, root, o, f)
      [] c = "osm"  -> osm_after_curl(i, root, o, f)
      [] c = "wiki" -> wiki_after_curl(i, root, o, f)

\* the transfer ends and the endpoint that started it answers
curlEnds(x, o) ==
    /\ x \in xfers
    /\ o \in Outcomes(cat, x)
    /\ LET r == after_curl(cat, x.item, x.root, o, CurlFile(o, files[x.root][x.item])) IN
       /\ files' = [files EXCEPT ![x.root][x.item] = r.file]
       /\ net' = IF x.live THEN r.msg ELSE net
    /\ xfers' = xfers \ {x}
    /\ UNCHANGED <<cat, vol, sentinel, udirs, session, page, ui, probes, avail,
                   batch, fresh, probedOk, chosen, pr, fin, call, conf>>

\* downloadFile(index) after its fetch: status, progress, downloadFile(index + 1)
answered ==
    /\ page = "progress"
    /\ net.kind \in {"rsp", "http500"}
    /\ batch' = OnAnswer(cat, batch, net).b
    /\ net' = OnAnswer(cat, batch, net).msg
    /\ UNCHANGED <<cat, vol, sentinel, udirs, files, session, page, ui, probes,
                   avail, xfers, fresh, probedOk, chosen, pr, fin, call, conf>>

----------------------------------------------------------------------------
(* Buttons of the download pages *)

\* Next on a progress page, enabled by the script when the batch is through
nextStep ==
    /\ page = "progress"
    /\ batch.nextOn
    /\ UNCHANGED <<cat, vol, sentinel, udirs, files, session, fresh, probedOk,
                   chosen, pr, fin, call, conf>>
    /\ ShowAfter

\* Back on the tiles page (shown at all times) or on a selection page, and
\* on through the pages before it to the drive step
backToDrive ==
    /\ \/ page = "progress" /\ cat = "tile"
       \/ page = "select"
    /\ UNCHANGED <<cat, vol, sentinel, udirs, files, session, fresh, probedOk,
                   chosen, pr, fin, call, conf>>
    /\ ShowDrive(FALSE)

\* Back on the tiles page, then Next on the drive step with the choice of
\* before: the write check passes again and the tiles page is loaded anew
retryTiles ==
    /\ page = "progress"
    /\ cat = "tile"
    /\ CanWrite(DestRoot(session))
    /\ fresh' = IF session.drive_type = "usb" THEN fresh \cup {session.usb_path}
                ELSE fresh
    /\ udirs' = IF session.drive_type = "usb"
                THEN [udirs EXCEPT ![session.usb_path] = Cats] ELSE udirs
    /\ UNCHANGED <<cat, vol, sentinel, files, session, probedOk, chosen, pr, fin, call, conf>>
    /\ ShowProgress(TILE_FILES)

\* Back on the archive progress page, shown once the batch is through
backFromProgress ==
    /\ page = "progress"
    /\ cat = "wiki"
    /\ batch.nextOn
    /\ UNCHANGED <<cat, vol, sentinel, udirs, files, session, fresh, probedOk,
                   chosen, pr, fin, call, conf>>
    /\ ShowSelect

\* Back on the page that follows the category's progress page: the region
\* selection page leads back to the tiles page, the archive selection page to
\* the region selection page; the completion page has no Back
backFromAfter ==
    /\ page = "after"
    /\ UNCHANGED <<cat, vol, sentinel, udirs, files, session, fresh, probedOk,
                   chosen, pr, fin, call, conf>>
    /\ \/ cat = "tile" /\ ShowProgress(TILE_FILES)
       \/ cat = "osm" /\ ShowSelect

----------------------------------------------------------------------------
(* One request at a time: destinations resolved, transfer outcome, answer *)

\* "tilesets", "my-maps", "wikipedia" under the volume's mount path
UsbSub(c) ==
    CASE c = "tile" -> "tilesets"
      [] c = "osm"  -> "my-maps"
      [] c = "wiki" -> "wikipedia"

\* TILESET_DIR, PBF_MAP_DIR, ZIM_DIR under the home directory
LocalSub(c) ==
    CASE c = "tile" -> ".local/share/emcomm-tools/mbtileserver/tilesets"
      [] c = "osm"  -> "my-maps"
      [] c = "wiki" -> "wikipedia"

NoDest == [root |-> "", dir |-> ""]

PageDest_GetDownloadPath(c, s) ==
    [root |-> IF s.drive_type = "usb" THEN UsbRoot(s) ELSE "home", dir |-> UsbSub(c)]

\* dest_path of download_tiles(), download_osm(), download_osm_progress() and
\* download_wiki(), rendered in the page's path line
PageDest(c, s) ==
    IF s.drive_type = "usb" THEN [root |-> UsbRoot(s), dir |-> UsbSub(c)]
    ELSE [root |-> "home", dir |-> LocalSub(c)]

\* dest_dir of api_download_tile(), api_download_osm() and api_download_wiki();
\* the region endpoint resolves none when the session's usb_path is empty
EndpointDest(c, s) ==
    IF s.drive_type = "usb"
    THEN IF c = "osm" /\ s.usb_path = "" THEN NoDest
         ELSE [root |-> UsbRoot(s), dir |-> UsbSub(c)]
    ELSE [root |-> "home", dir |-> LocalSub(c)]

\* curl exit codes: success, the codes the endpoints' tables name, and two
\* they do not (18 partial file, 92 HTTP/2 stream error)
ExitCodes == {0, 6, 7, 18, 22, 23, 28, 35, 52, 56, 92}

NoOut == [kind |-> "none", code |-> 0, bytes |-> 0]

\* how urlopen(url, timeout=30), read() and decode('utf-8') of a listing end
FetchOutcomes == {"ok", "network", "timeout", "undecodable"}

\* a selection list: the fetch outcome behind it, the items listed, those
\* annotated as downloaded (ticked and disabled), and whether the answer
\* carries an 'error' entry
NoListing == [fo |-> "none", items |-> {}, exists |-> {}, error |-> FALSE]

\* existing_files of download_osm(): the .pbf files of the page's dest_path
osm_existing_files(s) ==
    {i \in Catalog("osm") : Exists(PageDest("osm", s).root, i)}

\* api_osm_regions(), and renderRegions() marking the ids of existingFiles
api_osm_regions(s, fo) ==
    IF fo = "ok"
    THEN [fo |-> fo, items |-> Catalog("osm"),
          exists |-> Catalog("osm") \cap osm_existing_files(s), error |-> FALSE]
    ELSE [fo |-> fo, items |-> {}, exists |-> {}, error |-> TRUE]

\* existing_files of api_wiki_files(): the .zim files of the volume's
\* wikipedia directory in removable mode, and those of ZIM_DIR
wiki_existing_files(s) ==
    {i \in Catalog("wiki") :
        \/ s.drive_type = "usb" /\ Exists(UsbRoot(s), i)
        \/ Exists("home", i)}

\* api_wiki_files(): the except clause prints and the answer is the file lists
api_wiki_files(s, fo) ==
    IF fo = "ok"
    THEN [fo |-> fo, items |-> Catalog("wiki"),
          exists |-> Catalog("wiki") \cap wiki_existing_files(s), error |-> FALSE]
    ELSE [fo |-> fo, items |-> {}, exists |-> {}, error |-> FALSE]

\* call.shown    the destination the last page load rendered
\* call.written  the destination the last endpoint call resolved
\* call.out      how the transfer of the last endpoint call ended
\* call.rsp      what the last endpoint call answered
\* call.listing  the selection list of the last catalog fetch
\* call.file     the path of the file the last call with a submitted name made
NoCall == [shown |-> NoDest, written |-> NoDest, out |-> NoOut, rsp |-> NoMsg,
           listing |-> NoListing, file |-> <<>>]

\* session states: drive_type absent, 'local' or 'usb', usb_path absent or set
SessionStates ==
    {[NoSession EXCEPT !.drive_type = t, !.usb_path = p] :
        t \in {"none", "local", "usb"}, p \in UsbPaths \cup {""}}

\* how the transfer of one call can end
CallOutcomes(c, root) ==
    {[kind |-> "exit", code |-> k, bytes |-> IF k = 0 THEN MinPbfBytes ELSE 0] :
        k \in IF CanWrite(root) THEN ExitCodes ELSE ExitCodes \ {0}}
    \cup IF c = "tile" THEN {} ELSE {[kind |-> "timeout", code |-> 0, bytes |-> 0]}

\* a selection or progress page of the category is loaded
loadPage ==
    /\ call' = [call EXCEPT !.shown = PageDest(cat, session)]
    /\ UNCHANGED <<cat, vol, sentinel, udirs, files, session, page, ui, probes,
                   avail, batch, net, xfers, fresh, probedOk, chosen, pr, fin, conf>>

\* the names of TILE_FILES, as paths of one component
TileNames ==
    {<<"osm-us-zoom0to11-20251120.mbtiles">>, <<"osm-ca-zoom0to10-20251120.mbtiles">>,
     <<"osm-world-zoom0to7-20251121.mbtiles">>}

\* 'file' or 'region' values a request can carry, as path components: the
\* listed tile names, a plain name, names climbing with '..', an absolute one
SubmittedNames ==
    TileNames \cup {<<"quebec">>, <<"..", "quebec">>, <<"..", "..", "quebec">>,
                    <<"/", "tmp", "quebec">>}

\* the directory d as path components
DestPath(d) == <<d.root, d.dir>>

\* dest_dir / filename: an absolute right operand replaces the left one
Join(base, name) == IF name[1] = "/" THEN name ELSE base \o name

\* the path the operating system opens: '..' steps out of the last directory
RECURSIVE Normalize(_, _)
Normalize(todo, acc) ==
    IF todo = <<>> THEN acc
    ELSE IF Head(todo) = ".."
    THEN Normalize(Tail(todo), IF acc = <<>> THEN acc ELSE SubSeq(acc, 1, Len(acc) - 1))
    ELSE Normalize(Tail(todo), Append(acc, Head(todo)))

\* filename = f"{region}-latest.osm.pbf"
RegionFile(n) == [n EXCEPT ![Len(n)] = @ \o "-latest.osm.pbf"]

\* whether the endpoint of category c goes on with the submitted name n
AcceptsName(c, n) == c = "tile" => n \in TileNames

\* dest_file of the endpoint of category c for the submitted name n
dest_file(c, d, n) ==
    Join(DestPath(d), IF c = "osm" THEN RegionFile(n) ELSE n)

\* a request to the category's endpoint carrying the name n, with a
\* destination that can be written and a transfer that succeeds
requestNamed(n) ==
    /\ LET d == EndpointDest(cat, session) IN
       /\ d # NoDest
       /\ MkdirDest(d.root) = "ok"
       /\ CanWrite(d.root)
       /\ IF AcceptsName(cat, n)
          THEN /\ call' = [call EXCEPT !.written = d, !.out = NoOut, !.rsp = Success(0),
                               !.file = Normalize(dest_file(cat, d, n), <<>>)]
               /\ udirs' = AfterMkdir(d.root)
          ELSE /\ call' = [call EXCEPT !.out = NoOut, !.file = <<>>,
                               !.rsp = Failure(0, "Invalid file", "invalid")]
               /\ udirs' = udirs
    /\ UNCHANGED <<cat, vol, sentinel, files, session, page, ui, probes, avail, batch,
                   net, xfers, fresh, probedOk, chosen, pr, fin, conf>>

\* the selection page of the region or archive category fetches its listing
fetchCatalog(fo) ==
    /\ cat # "tile"
    /\ call' = [call EXCEPT !.listing = IF cat = "osm" THEN api_osm_regions(session, fo)
                                        ELSE api_wiki_files(session, fo)]
    /\ UNCHANGED <<cat, vol, sentinel, udirs, files, session, page, ui, probes,
                   avail, batch, net, xfers, fresh, probedOk, chosen, pr, fin, conf>>

\* one request to the category's download endpoint for item i, from the
\* resolution of the destination to the answer; o is how the transfer ends
\* and part whether curl has written some of the body by then
request(i, o, part) ==
    /\ i \in Catalog(cat)
    /\ LET d    == EndpointDest(cat, session)
           root == d.root
       IN  IF d = NoDest
           THEN /\ call' = [call EXCEPT !.written = d, !.out = NoOut,
                               !.rsp = Failure(i, "USB path not set", "nopath")]
                /\ o = NoOut /\ ~part
                /\ UNCHANGED <<udirs, files>>
           ELSE IF MkdirDest(root) # "ok"
           THEN /\ call' = [call EXCEPT !.written = d, !.out = NoOut,
                               !.rsp = IF cat = "osm"
                                       THEN Failure(i, "Cannot create directory", "mkdir")
                                       ELSE Http500(i, MkdirDest(root))]
                /\ o = NoOut /\ ~part
                /\ UNCHANGED <<udirs, files>>
           ELSE /\ udirs' = AfterMkdir(root)
                /\ IF SkipsExisting(Exists(root, i))
                   THEN /\ call' = [call EXCEPT !.written = d, !.out = NoOut,
                                       !.rsp = Skipped(i)]
                        /\ o = NoOut /\ ~part
                        /\ files' = files
                   ELSE /\ o \in CallOutcomes(cat, root)
                        /\ part => CanWrite(root)
                        /\ LET f == IF part THEN PartFile ELSE files[root][i]
                               r == after_curl(cat, i, root, o, CurlFile(o, f))
                           IN  /\ files' = [files EXCEPT ![root][i] = r.file]
                               /\ call' = [call EXCEPT !.written = d, !.out = o,
                                                       !.rsp = r.msg]
    /\ UNCHANGED <<cat, vol, sentinel, session, page, ui, probes, avail, batch,
                   net, xfers, fresh, probedOk, chosen, pr, fin, conf>>

----------------------------------------------------------------------------
(* Completion step and finalizer *)

\* the entry at a local directory path: nothing, a real directory, or a
\* symlink to the category directory of the volume at `to`
NoEntry == [kind |-> "none", to |-> ""]

RealDir == [kind |-> "dir", to |-> ""]

LinkTo(p) == [kind |-> "link", to |-> p]

\* fin.proc   the wizard process: "off", "serving", or "exited" by main()
\* fin.force  the launch was given --force
\* fin.flag   ~/.config/emcomm-tools/.firstboot-complete exists
\* fin.local  the entry at the category's local path (tiles, regions)
\* fin.backups  directories named <name>.backup.<time> beside it
\* fin.links  archives: links[i] is the volume the local symlink named like
\*            item i points to, "" if the name is no symlink
\* fin.runs   calls of create_symlinks since the launch
\* fin.results  what the last create_symlinks reported
NoFin == [proc |-> "serving", force |-> FALSE, flag |-> FALSE, local |-> NoEntry, backups |-> 0,
          links |-> [i \in ItemIds |-> ""], runs |-> 0, results |-> {}]

\* the operation of the finalizer that raises OSError when it is reached
\* ("earlier": one in the part of a category handled before this one)
FinFaults == {"none", "earlier", "rename", "unlink", "symlink"}

\* usb_tiles.exists() / usb_maps.exists() / usb_wiki.exists()
UsbDirExists(p, c) == p \in UsbPaths /\ Mounted(p) /\ c \in udirs[p]

backup_step_AnyEntry(st, f) ==
    IF st.raised \/ st.local.kind = "none" THEN st
    ELSE [st EXCEPT !.local = NoEntry, !.backups = @ + 1,
                    !.results = @ \cup {"Backed up"}]

backup_step_Deletes(st, f) ==
    IF st.raised \/ st.local.kind # "dir" THEN st
    ELSE [st EXCEPT !.local = NoEntry]

\* if local.exists() and not local.is_symlink(): local.rename(backup)
backup_step(st, f) ==
    IF st.raised \/ st.local.kind # "dir" THEN st
    ELSE IF f = "rename" THEN [st EXCEPT !.raised = TRUE]
    ELSE [st EXCEPT !.local = NoEntry, !.backups = @ + 1,
                    !.results = @ \cup {"Backed up"}]

\* if local.is_symlink(): local.unlink()
unlink_step(st, f) ==
    IF st.raised \/ st.local.kind # "link" THEN st
    ELSE IF f = "unlink" THEN [st EXCEPT !.raised = TRUE]
    ELSE [st EXCEPT !.local = NoEntry]

\* local.symlink_to(usb_dir)
symlink_step(p, st, f) ==
    IF st.raised THEN st
    ELSE IF f = "symlink" THEN [st EXCEPT !.raised = TRUE]
    ELSE [st EXCEPT !.local = LinkTo(p), !.results = @ \cup {"Linked"}]

\* create_symlinks(): the tiles part, and the regions part alike
link_directory(p, c, st, f) ==
    IF ~UsbDirExists(p, c) THEN st
    ELSE symlink_step(p, unlink_step(backup_step(st, f), f), f)

\* create_symlinks(): symlinks of the local archive directory whose target
\* does not exist are removed
wiki_cleanup(st, f) ==
    LET broken == {i \in Catalog("wiki") :
                      st.links[i] # "" /\ ~Exists(st.links[i], i)}
    IN  IF st.raised \/ broken = {} THEN st
        ELSE IF f = "unlink" THEN [st EXCEPT !.raised = TRUE]
        ELSE [st EXCEPT !.links = [i \in ItemIds |-> IF i \in broken THEN "" ELSE @[i]],
                        !.results = @ \cup {"Removed broken link"}]

\* create_symlinks(): for each archive on the volume, an existing symlink of
\* its name is removed, and a symlink is made unless the name exists
\* if not local_file.exists(): a name that is a real local file is not linked
KeepsRealFile_Never(real) == FALSE

KeepsRealFile(real) == real

RECURSIVE wiki_link(_, _, _, _)
wiki_link(p, todo, st, f) ==
    IF todo = <<>> \/ st.raised THEN st
    ELSE LET i  == Head(todo)
             s1 == IF st.links[i] = "" THEN st
                   ELSE IF f = "unlink" THEN [st EXCEPT !.raised = TRUE]
                   ELSE [st EXCEPT !.links[i] = ""]
             s2 == IF s1.raised \/ KeepsRealFile(files["home"][i].there) THEN s1
                   ELSE IF f = "symlink" THEN [s1 EXCEPT !.raised = TRUE]
                   ELSE [s1 EXCEPT !.links[i] = p, !.results = @ \cup {"Linked"}]
         IN  wiki_link(p, Tail(todo), s2, f)

\* the categories create_symlinks handles before category c
Earlier(c) ==
    CASE c = "tile" -> {}
      [] c = "osm"  -> {"tile"}
      [] c = "wiki" -> {"tile", "osm"}

\* create_symlinks() as far as category c sees it, from the state st of the
\* local entries
create_symlinks(s, c, st, f) ==
    LET p == UsbRoot(s) IN
    IF ~Mounted(p) THEN st
    ELSE IF f = "earlier" /\ \E e \in Earlier(c) : UsbDirExists(p, e)
    THEN [st EXCEPT !.raised = TRUE]
    ELSE IF c = "wiki"
    THEN IF ~UsbDirExists(p, c) THEN st
         ELSE wiki_link(p, Ascending({i \in Catalog("wiki") : files[p][i].there}),
                        wiki_cleanup(st, f), f)
    ELSE link_directory(p, c, st, f)

\* whether complete() calls the finalizer
RunsFinalizer_Always(s) == TRUE

RunsFinalizer(s) == s.drive_type = "usb"

\* what complete() does once the finalizer has raised or returned
AfterFinalizer(raised) == IF raised THEN "http500" ELSE "mark"

\* main(): with the marker there and no --force the process exits
main(force) ==
    /\ fin.proc = "off"
    /\ IF ~force /\ fin.flag
       THEN /\ fin' = [fin EXCEPT !.proc = "exited", !.force = force,
                                  !.runs = 0, !.results = {}]
            /\ page' = "none"
       ELSE /\ fin' = [fin EXCEPT !.proc = "serving", !.force = force,
                                  !.runs = 0, !.results = {}]
            /\ page' = "index"
    /\ session' = NoSession
    /\ UNCHANGED <<cat, vol, sentinel, udirs, files, ui, probes, avail, batch, net,
                   xfers, fresh, probedOk, chosen, pr, call, conf>>

\* the steps from the welcome page to the last page before the completion
\* step (the archive pages), which leave the session s of the drive step
wizardSteps(s) ==
    /\ fin.proc = "serving"
    /\ page = "index"
    /\ s.drive_type = "usb" => vol[s.usb_path] = "rw"
    /\ session' = s
    /\ udirs' = IF s.drive_type = "usb" THEN [udirs EXCEPT ![s.usb_path] = Cats]
                ELSE udirs
    /\ page' = "archives"
    /\ UNCHANGED <<cat, vol, sentinel, files, ui, probes, avail, batch, net,
                   xfers, fresh, probedOk, chosen, pr, fin, call, conf>>

\* complete(): the finalizer in removable mode, then the marker, then the page
complete(f) ==
    /\ fin.proc = "serving"
    /\ page = "archives"
    /\ f = "none" \/ RunsFinalizer(session)
    /\ LET st0 == [local |-> fin.local, backups |-> fin.backups, links |-> fin.links,
                   results |-> {}, raised |-> FALSE]
           st  == IF RunsFinalizer(session)
                  THEN create_symlinks(session, cat, st0, f) ELSE st0
       IN  /\ f # "none" => st.raised
           /\ fin' = [fin EXCEPT !.local = st.local, !.backups = st.backups,
                                 !.links = st.links, !.results = st.results,
                                 !.runs = IF RunsFinalizer(session) THEN @ + 1 ELSE @,
                                 !.flag = IF AfterFinalizer(st.raised) = "mark"
                                          THEN TRUE ELSE @]
           /\ page' = IF AfterFinalizer(st.raised) = "mark" THEN "complete"
                      ELSE "http500"
    /\ UNCHANGED <<cat, vol, sentinel, udirs, files, session, ui, probes, avail,
                   batch, net, xfers, fresh, probedOk, chosen, pr, call, conf>>

\* api_quit(): the Finish button of the completion page ends the process
api_quit ==
    /\ fin.proc = "serving"
    /\ page = "complete"
    /\ fin' = [fin EXCEPT !.proc = "off"]
    /\ page' = "none"
    /\ UNCHANGED <<cat, vol, sentinel, udirs, files, session, ui, probes, avail,
                   batch, net, xfers, fresh, probedOk, chosen, pr, call, conf>>

\* the window is closed (webview.start returns), or main() has exited: the
\* wizard can be launched again
closeWindow ==
    /\ \/ fin.proc = "serving" /\ page # "complete"
       \/ fin.proc = "exited"
    /\ fin' = [fin EXCEPT !.proc = "off"]
    /\ page' = "none"
    /\ UNCHANGED <<cat, vol, sentinel, udirs, files, session, ui, probes, avail,
                   batch, net, xfers, fresh, probedOk, chosen, pr, call, conf>>

----------------------------------------------------------------------------
(* et-radio: radios.d and the active pointer *)

\* ids of the profile files radios.d can hold
RadioIds == {"ic7300", "ft891"}

\* radio_id values a /select request can carry: ids of profiles, 'none', an
\* id with no profile file, the empty string
RequestIds == RadioIds \cup {"none", "nosuch", ""}

\* targets the active-radio.json symlink can have; "" when there is no link
LinkTargets == RadioIds \cup {"nosuch", ""}

\* conf.profiles  ids of the profile files in radios.d
\* conf.link      target id of active-radio.json, "" without the link
\* conf.answer    the last answer of /select
\* conf.user      user.json
\* conf.profile   the operator profile last returned by a load or written by a save
NoAnswer == [success |-> FALSE, radio_id |-> "None", asked |-> "None"]

\* the names (without .json) in radios.d that glob("*.json") yields
RadioFiles(r) == r.profiles \cup (IF r.link # "" THEN {"active-radio"} ELSE {})

\* load_radios(): ids of the profiles, the pointer's own file left out
load_radios(r) == {n \in RadioFiles(r) : n # "active-radio"}

\* get_active_radio(): the stem of the pointer's target when the pointer is
\* a symlink whose target exists, else None
get_active_radio(r) ==
    IF r.link # "" /\ r.link \in r.profiles THEN r.link ELSE "None"

set_active_radio_KeepsOld(r, id) ==
    IF id # "" /\ id # "none" /\ id \in r.profiles THEN [r EXCEPT !.link = id] ELSE r

\* set_active_radio(radio_id): the pointer is removed, then made anew when
\* the id's profile file exists
set_active_radio(r, id) ==
    IF id # "" /\ id # "none" /\ id \in r.profiles
    THEN [r EXCEPT !.link = id]
    ELSE [r EXCEPT !.link = ""]

\* what set_active_radio returns
set_active_radio_result(r, id) == TRUE

\* select_radio(): POST /select with radio_id id
select_radio(id) ==
    /\ conf' = [set_active_radio(conf, id) EXCEPT !.answer =
                  IF set_active_radio_result(conf, id)
                  THEN [success |-> TRUE, asked |-> id,
                        radio_id |-> IF id # "" /\ id # "none" THEN id ELSE "None"]
                  ELSE [success |-> FALSE, asked |-> id, radio_id |-> "None"]]
    /\ UNCHANGED <<cat, vol, sentinel, udirs, files, session, page, ui, probes, avail,
                   batch, net, xfers, fresh, probedOk, chosen, pr, fin, call>>

----------------------------------------------------------------------------
(* user.json in the wizard and in et-user *)

\* a 'callsign' entry that is not there
Absent == "<absent>"

\* callsign strings, stored or submitted
CallsignValues == {"", " ", "va2ops", "VA2OPS", "N0CALL"}

\* str.strip() and str.upper() on these strings
Strip(c) == IF c = " " THEN "" ELSE c

Upper(c) == IF c = "va2ops" THEN "VA2OPS" ELSE c

\* x or 'N0CALL'
OrSentinel(c) == IF c = "" THEN "N0CALL" ELSE c

\* user.json: not there, not JSON, or an object with or without 'callsign'
UserFile(c) == [kind |-> "json", callsign |-> c]

UserFiles ==
    {[kind |-> k, callsign |-> Absent] : k \in {"none", "corrupt"}}
    \cup {UserFile(c) : c \in CallsignValues \cup {Absent}}

NoProfile == [src |-> "none", callsign |-> Absent]

NoConf == [profiles |-> {}, link |-> "", answer |-> NoAnswer,
           user |-> [kind |-> "none", callsign |-> Absent], profile |-> NoProfile]

\* load_user_config() of the wizard: the stored object as it is, or the
\* default object when the file is missing or unreadable
load_user_config(u) == IF u.kind = "json" THEN u.callsign ELSE "N0CALL"

\* load_config() of et-user: the stored object with the keys it lacks taken
\* from DEFAULT_CONFIG, or DEFAULT_CONFIG
load_config(u) ==
    IF u.kind = "json" THEN (IF u.callsign = Absent THEN "N0CALL" ELSE u.callsign)
    ELSE "N0CALL"

\* request.form.get('callsign', '') / data.get('callsign', '')
Submitted(c) == IF c = Absent THEN "" ELSE c

confVars == <<cat, vol, sentinel, udirs, files, session, page, ui, probes, avail,
              batch, net, xfers, fresh, probedOk, chosen, pr, fin, call>>

\* GET /user of the wizard
user_page ==
    /\ conf' = [conf EXCEPT !.profile = [src |-> "load",
                                         callsign |-> load_user_config(conf.user)]]
    /\ UNCHANGED confVars

\* user_setup() POST of the wizard with the form's callsign c; saved tells
\* whether save_user_config, which swallows its errors, wrote the file
user_setup(c, saved) ==
    /\ LET new == OrSentinel(Strip(Upper(Submitted(c)))) IN
       conf' = [conf EXCEPT !.profile = [src |-> "save", callsign |-> new],
                            !.user = IF saved THEN UserFile(new) ELSE @]
    /\ UNCHANGED confVars

\* index() of et-user
user_index ==
    /\ conf' = [conf EXCEPT !.profile = [src |-> "load",
                                         callsign |-> load_config(conf.user)]]
    /\ UNCHANGED confVars

\* set_language() of et-user: the loaded object is written back
set_language ==
    /\ conf' = [conf EXCEPT !.profile = [src |-> "save",
                                         callsign |-> load_config(conf.user)],
                            !.user = UserFile(load_config(conf.user))]
    /\ UNCHANGED confVars

\* save() of et-user with the submitted callsign c: an empty one is refused
user_save(c) ==
    /\ LET new == Upper(Strip(Submitted(c))) IN
       IF new = "" THEN conf' = conf
       ELSE conf' = [conf EXCEPT !.profile = [src |-> "save", callsign |-> new],
                                 !.user = UserFile(new)]
    /\ UNCHANGED confVars

----------------------------------------------------------------------------
(* Specifications *)

\* SpecDrive: the wizard from the drive step of a first run (nothing probed,
\* nothing downloaded, each volume locked, unlocked or not plugged in) to the
\* first download request of the category's progress page
InitDrive ==
    /\ cat \in Cats
    /\ vol \in [UsbPaths -> VolStates]
    /\ sentinel = [p \in UsbPaths |-> FALSE]
    /\ udirs = [p \in UsbPaths |-> {}]
    /\ files = [r \in Roots |-> [i \in ItemIds |-> NoFile]]
    /\ session = NoSession
    /\ page = "drive"
    /\ ui = DrivePage(FALSE)
    /\ probes = {}
    /\ avail = {}
    /\ batch = NoBatch
    /\ net = NoMsg
    /\ xfers = {}
    /\ fresh = {}
    /\ probedOk = {}
    /\ chosen = "none"
    /\ pr = PrIdle
    /\ fin = NoFin
    /\ call = NoCall
    /\ conf = NoConf

NextDrive ==
    \/ \E t \in {"local", "usb"} : selectDriveType(t)
    \/ \E p \in UsbPaths : selectUsbDrive(p)
    \/ \E q \in probes : api_check_drive(q)
    \/ \E q \in probes : probeAnswered(q)
    \/ drive_setup
    \/ drive_setup_mkdirs
    \/ reloadDrive
    \/ \E S \in SUBSET Catalog(cat) : submitSelection(S)
    \/ backToDrive
    \/ \E p \in UsbPaths, v \in VolStates : VolChange(p, v)

SpecDrive == InitDrive /\ [][NextDrive]_vars

\* the sessions the drive step hands to the download steps: local storage, or
\* a volume that passed the write check and got its three directories
DownloadSessions ==
    {[NoSession EXCEPT !.drive_type = "local"]}
    \cup {[NoSession EXCEPT !.drive_type = "usb", !.usb_path = p] : p \in UsbPaths}

\* Spec: the download steps of one category against one destination, from
\* the first load of the category's page; the session's volume may have been
\* locked or unplugged since the drive step
Init ==
    /\ cat \in Cats
    /\ session \in DownloadSessions
    /\ vol \in [UsbPaths -> VolStates]
    /\ \A p \in UsbPaths : p # session.usb_path => vol[p] = "gone"
    /\ sentinel = [p \in UsbPaths |-> FALSE]
    /\ udirs = [p \in UsbPaths |-> IF p = session.usb_path THEN Cats ELSE {}]
    /\ files = [r \in Roots |-> [i \in ItemIds |-> NoFile]]
    /\ page = IF cat = "tile" THEN "progress" ELSE "select"
    /\ ui = NoUi
    /\ probes = {}
    /\ avail = IF cat = "tile" THEN {} ELSE Catalog(cat)
    /\ batch = IF cat = "tile" THEN downloadFile(NewBatch(TILE_FILES), 0).b ELSE NoBatch
    /\ net = IF cat = "tile" THEN downloadFile(NewBatch(TILE_FILES), 0).msg ELSE NoMsg
    /\ xfers = {}
    /\ fresh = IF session.drive_type = "usb" /\ vol[session.usb_path] = "rw"
              THEN {session.usb_path} ELSE {}
    /\ probedOk = IF session.drive_type = "usb" THEN {session.usb_path} ELSE {}
    /\ chosen = DestRoot(session)
    /\ pr = PrIdle
    /\ fin = NoFin
    /\ call = NoCall
    /\ conf = NoConf

Next ==
    \/ \E S \in SUBSET Catalog(cat) : submitSelection(S)
    \/ api_download_tile
    \/ api_download_osm
    \/ api_download_wiki
    \/ \E x \in xfers : curlWrites(x)
    \/ \E x \in xfers : \E o \in Outcomes(cat, x) : curlEnds(x, o)
    \/ answered
    \/ nextStep
    \/ retryTiles
    \/ backFromProgress
    \/ backFromAfter
    \/ \E v \in VolStates : session.drive_type = "usb" /\ VolChange(session.usb_path, v)

Spec == Init /\ [][Next]_vars

\* SpecProbe: the probe alone, for any volume state and with or without a
\* sentinel left behind by an earlier run
InitProbe ==
    /\ cat = "tile"
    /\ vol \in [UsbPaths -> VolStates]
    /\ sentinel \in [UsbPaths -> BOOLEAN]
    /\ udirs = [p \in UsbPaths |-> {}]
    /\ files = [r \in Roots |-> [i \in ItemIds |-> NoFile]]
    /\ session = NoSession
    /\ page = "drive"
    /\ ui = NoUi
    /\ probes = {}
    /\ avail = {}
    /\ batch = NoBatch
    /\ net = NoMsg
    /\ xfers = {}
    /\ fresh = {}
    /\ probedOk = {}
    /\ chosen = "none"
    /\ pr = PrIdle
    /\ fin = NoFin
    /\ call = NoCall
    /\ conf = NoConf

NextProbe ==
    \/ \E path \in ProbePaths : PCall(path)
    \/ PTouch
    \/ PUnlink
    \/ PReturn
    \/ \E p \in UsbPaths, v \in VolStates : PVolChange(p, v)

SpecProbe == InitProbe /\ [][NextProbe]_vars

\* the entries a local archive name can have: nothing, a real file, or a
\* symlink to the archive of that name on a volume
LocalNames ==
    {e \in [real : BOOLEAN, link : UsbPaths \cup {""}] : ~(e.real /\ e.link # "")}

\* SpecFinal: launches of the wizard and its completion step, for the local
\* entries of one category, from any state of the volumes and of the local
\* directory left by earlier runs
InitFinal ==
    /\ cat \in Cats
    /\ vol \in [UsbPaths -> VolStates]
    /\ sentinel = [p \in UsbPaths |-> FALSE]
    /\ udirs \in [UsbPaths -> {{}, Cats}]
    /\ \E names \in [Catalog("wiki") -> LocalNames],
          onUsb \in [UsbPaths -> SUBSET Catalog("wiki")],
          local \in {NoEntry, RealDir} \cup {LinkTo(p) : p \in UsbPaths},
          flag \in BOOLEAN :
          /\ cat = "wiki" => local = NoEntry
          /\ cat # "wiki" => /\ \A i \in Catalog("wiki") : names[i] = [real |-> FALSE, link |-> ""]
                             /\ \A p \in UsbPaths : onUsb[p] = {}
          /\ \A p \in UsbPaths : onUsb[p] # {} => udirs[p] = Cats
          /\ files = [r \in Roots |-> [i \in ItemIds |->
                        IF \/ r \in UsbPaths /\ i \in onUsb[r]
                           \/ r = "home" /\ i \in Catalog("wiki") /\ names[i].real
                        THEN WholeFile(MinPbfBytes) ELSE NoFile]]
          /\ fin = [NoFin EXCEPT !.proc = "off", !.flag = flag, !.local = local,
                                 !.links = [i \in ItemIds |->
                                    IF i \in Catalog("wiki") THEN names[i].link ELSE ""]]
    /\ session = NoSession
    /\ page = "none"
    /\ ui = NoUi
    /\ probes = {}
    /\ avail = {}
    /\ batch = NoBatch
    /\ net = NoMsg
    /\ xfers = {}
    /\ fresh = {}
    /\ probedOk = {}
    /\ chosen = "none"
    /\ pr = PrIdle
    /\ call = NoCall
    /\ conf = NoConf

NextFinal ==
    \/ \E force \in BOOLEAN : main(force)
    \/ \E s \in DownloadSessions : wizardSteps(s)
    \/ \E f \in FinFaults : complete(f)
    \/ api_quit
    \/ closeWindow
    \/ \E p \in UsbPaths, v \in VolStates : VolChange(p, v)

SpecFinal == InitFinal /\ [][NextFinal]_vars

\* SpecCall: page loads and endpoint calls of one category, one at a time,
\* under any session state, volume state and transfer outcome
InitCall ==
    /\ cat \in Cats
    /\ session \in SessionStates
    /\ vol \in [UsbPaths -> VolStates]
    /\ udirs \in [UsbPaths -> {{}, Cats}]
    /\ \A p \in UsbPaths : p # session.usb_path => vol[p] = "gone" /\ udirs[p] = {}
    /\ sentinel = [p \in UsbPaths |-> FALSE]
    /\ \E had \in SUBSET ({"home"} \cup ({session.usb_path} \cap UsbPaths)) :
          /\ \A p \in had \cap UsbPaths : udirs[p] = Cats
          /\ files = [r \in Roots |-> [i \in ItemIds |->
                        IF r \in had /\ i = Ascending(Catalog(cat))[1]
                        THEN WholeFile(MinPbfBytes) ELSE NoFile]]
    /\ page = "none"
    /\ ui = NoUi
    /\ probes = {}
    /\ avail = {}
    /\ batch = NoBatch
    /\ net = NoMsg
    /\ xfers = {}
    /\ fresh = {}
    /\ probedOk = {}
    /\ chosen = "none"
    /\ pr = PrIdle
    /\ fin = NoFin
    /\ call = NoCall
    /\ conf = NoConf

NextCall ==
    \/ loadPage
    \/ \E fo \in FetchOutcomes : fetchCatalog(fo)
    \/ \E i \in {Ascending(Catalog(cat))[1]},
          o \in {NoOut} \cup CallOutcomes(cat, "home"), part \in BOOLEAN :
          request(i, o, part)
    \/ \E p \in {session.usb_path} \cap UsbPaths, v \in VolStates : VolChange(p, v)

SpecCall == InitCall /\ [][NextCall]_vars

\* SpecName: endpoint requests of one category carrying any submitted name,
\* under any session state and volume state
NextName ==
    \/ \E n \in SubmittedNames : requestNamed(n)
    \/ \E p \in {session.usb_path} \cap UsbPaths, v \in VolStates : VolChange(p, v)

SpecName == InitCall /\ [][NextName]_vars

\* SpecConf: the two applets and the wizard's user step over any content of
\* radios.d and user.json
InitConf ==
    /\ cat = "tile"
    /\ vol = [p \in UsbPaths |-> "gone"]
    /\ sentinel = [p \in UsbPaths |-> FALSE]
    /\ udirs = [p \in UsbPaths |-> {}]
    /\ files = [r \in Roots |-> [i \in ItemIds |-> NoFile]]
    /\ session = NoSession
    /\ page = "none"
    /\ ui = NoUi
    /\ probes = {}
    /\ avail = {}
    /\ batch = NoBatch
    /\ net = NoMsg
    /\ xfers = {}
    /\ fresh = {}
    /\ probedOk = {}
    /\ chosen = "none"
    /\ pr = PrIdle
    /\ fin = NoFin
    /\ call = NoCall
    /\ \E ps \in SUBSET RadioIds, l \in LinkTargets, u \in UserFiles :
          conf = [NoConf EXCEPT !.profiles = ps, !.link = l, !.user = u]

NextConf ==
    \/ \E id \in RequestIds : select_radio(id)
    \/ user_page
    \/ \E c \in CallsignValues \cup {Absent}, saved \in BOOLEAN : user_setup(c, saved)
    \/ user_index
    \/ set_language
    \/ \E c \in CallsignValues \cup {Absent} : user_save(c)

SpecConf == InitConf /\ [][NextConf]_vars

----------------------------------------------------------------------------
(* What the drive step hands over *)

\* the session as the download steps read it: the selection is replaced by
\* each selection page, and the path is read in removable mode only
AsHandedOver(s) ==
    IF s.drive_type = "usb" THEN [s EXCEPT !.sel = <<>>]
    ELSE [s EXCEPT !.sel = <<>>, !.usb_path = ""]

\* SpecDrive: a download page is reached only with a session Spec starts
\* from, its volume probed and holding the three directories
DriveHandsOver ==
    page \in {"progress", "select", "after"} =>
        /\ AsHandedOver(session) \in DownloadSessions
        /\ session.drive_type = "usb" =>
              /\ session.usb_path \in probedOk
              /\ udirs[session.usb_path] = Cats

----------------------------------------------------------------------------
(* Download endpoints: claims *)

endpoint == api_download_tile \/ api_download_osm \/ api_download_wiki

\* C1: an endpoint that finds the item's file at its final name in the
\* resolved destination answers skipped with success, starts no transfer and
\* leaves every file as it is
C1_ExistingFileIsSkipped ==
    [][(endpoint /\ Exists(DestRoot(session), net.item))
          => /\ net' = Skipped(net.item)
             /\ net'.success /\ net'.skipped
             /\ xfers' = xfers
             /\ files' = files]_vars

\* a completed region file on a volume has been answered as skipped
C1_Witness ==
    /\ net.kind = "rsp"
    /\ net.skipped
    /\ session.drive_type = "usb"
    /\ files[DestRoot(session)][net.item].whole
    /\ xfers = {}

\* C2: when an endpoint answers that the transfer failed (non-zero exit of
\* curl, or timeout), no file is at the item's final name
C2_NoFileAfterFailure ==
    (net.kind = "rsp" /\ net.cause \in {"exit", "timeout"})
        => ~files[DestRoot(session)][net.item].there

\* C3: whatever the runs before, an item none of whose transfers is still
\* running is answered as skipped only if a completely transferred file is at
\* its final name; after a failed transfer it is attempted again
C3_SkippedOnlyIfWhole ==
    (/\ net.kind = "rsp"
     /\ net.skipped
     /\ ~\E x \in xfers : x.item = net.item)
        => files[DestRoot(session)][net.item].whole

----------------------------------------------------------------------------
(* Progress page scripts: claims *)

Resolved == {"exists", "done", "error"}

LiveXfers == {x \in xfers : x.live}

\* no item is asked for twice; a batch that is not through has a request, a
\* transfer or an answer under way; a batch that is through has asked for
\* every item once and shows an outcome for each
C4_Inv ==
    page = "progress" =>
        /\ \A k \in 1..Len(batch.list) : batch.asked[k] <= 1
        /\ ~batch.nextOn => (net.kind # "none" \/ LiveXfers # {})
        /\ batch.nextOn =>
              \A k \in 1..Len(batch.list) :
                  batch.asked[k] = 1 /\ batch.status[k] \in Resolved

\* whatever the answer (success, skipped, failure, or a body that is no
\* JSON), the script shows the item's outcome and moves on to the next item,
\* or finishes after the last
C4_Step ==
    answered =>
        /\ batch'.status[batch.idx + 1] \in Resolved
        /\ batch'.idx = batch.idx + 1
        /\ IF batch.idx + 1 < Len(batch.list)
           THEN net' = Req(batch.list[batch.idx + 2]) /\ ~batch'.nextOn
           ELSE net' = NoMsg /\ batch'.nextOn

\* C4: a failed item never stops a batch: every item is asked for exactly
\* once, each ends with its own outcome shown, and the batch goes on to its
\* end after any answer
C4_FailureNeverAborts == []C4_Inv /\ [][C4_Step]_vars

\* a batch of three is through, its second item failed, its third was
\* transferred after that
C4_Witness ==
    /\ page = "progress"
    /\ batch.nextOn
    /\ Len(batch.list) = 3
    /\ batch.status = <<"done", "error", "done">>

\* C5: within a batch the items are asked for in list order, each only after
\* the one before has its outcome; the batch has at most one transfer
\* running and none while a request or answer is in flight; the progress
\* count is the number of items that have an outcome
C5_OneAtATimeInOrder ==
    page = "progress" =>
        LET n == Len(batch.list) IN
        /\ Cardinality(LiveXfers) <= 1
        /\ batch.idx <= n
        /\ batch.progress = batch.idx
        /\ \A x \in LiveXfers :
              /\ net.kind = "none"
              /\ batch.idx < n
              /\ x.item = batch.list[batch.idx + 1]
        /\ net.kind # "none" =>
              /\ LiveXfers = {}
              /\ batch.idx < n
              /\ net.item = batch.list[batch.idx + 1]
        /\ \A k \in 1..n :
              /\ k <= batch.idx => batch.status[k] \in Resolved /\ batch.asked[k] = 1
              /\ k = batch.idx + 1 => batch.status[k] = "active" /\ batch.asked[k] = 1
              /\ k > batch.idx + 1 => batch.status[k] = "pending" /\ batch.asked[k] = 0

\* the second item's transfer runs after the first item failed
C5_Witness ==
    /\ page = "progress"
    /\ batch.idx = 1
    /\ batch.status[1] = "error"
    /\ \E x \in LiveXfers : x.item = batch.list[2] /\ x.phase = "writing"

----------------------------------------------------------------------------
(* Drive step and probe: claims *)

\* C6: a session in removable mode holds a mount path for which a probe has
\* answered true in this session
C6_UsbSessionIsProbed ==
    session.drive_type = "usb" => session.usb_path \in probedOk

\* C7: the probe returns true only if the sentinel was created and removed;
\* on an empty path, a missing path, a failed creation and a failed removal it
\* returns false; no exception leaves it
C7_ProbeTrueIffCreatedAndRemoved ==
    pr.pc = "done" =>
        /\ ~pr.escaped
        /\ pr.ret \in {"true", "false"}
        /\ pr.ret = "true" <=> (pr.path # "" /\ pr.created /\ pr.removal = "ok")

\* the sentinel was created, its removal failed, the probe returned false
C7_Witness ==
    /\ pr.pc = "done"
    /\ pr.created
    /\ pr.removal = "failed"
    /\ pr.ret = "false"

\* C8: when the probe returns false, the sentinel is there exactly if it was
\* there before the probe
C8_NoSentinelLeftOnFalse ==
    (pr.pc = "done" /\ pr.ret = "false" /\ pr.path # "")
        => sentinel[pr.path] = pr.before

\* C9: a file on a volume is written, replaced or removed only while the
\* volume is unchanged since a probe of it answered true
C9_WritesOnlyAfterFreshProbe ==
    [][\A p \in UsbPaths : files'[p] # files[p] => p \in fresh]_vars

\* the three mkdir of the drive step cannot all succeed on volume p
MkdirsFail(p) == vol[p] = "gone" \/ (vol[p] = "ro" /\ udirs[p] # Cats)

\* a download page resolves its destination to the root the operator
\* submitted last: local storage or the volume picked
C10_Inv ==
    page \in {"progress", "select"} =>
        /\ chosen \in {"home"} \cup UsbPaths
        /\ DestRoot(session) = chosen
        /\ net.kind = "req" => DestRoot(session) = chosen

\* a submit in removable mode whose probe or mkdir fails renders the drive
\* page with the error
C10_Step ==
    /\ (/\ drive_setup
        /\ ui.type = "usb"
        /\ ui.input # ""
        /\ ~check_path_writable(ui.input, vol[ui.input], sentinel[ui.input]).ret)
          => (page' = "drive" /\ ui'.err)
    /\ (drive_setup_mkdirs /\ MkdirsFail(session.usb_path))
          => (page' = "drive" /\ ui'.err)

\* C10: a failed probe or mkdir on the drive submit shows the error on the
\* drive page and does not advance, and the downloads that follow go to the
\* root the operator submitted
C10_LockedDriveStopsAtDriveStep == []C10_Inv /\ [][C10_Step]_vars

\* the error page after a failed submit of a volume: the session is in
\* removable mode and does not hold that volume
C10_Witness ==
    /\ page = "drive"
    /\ ui.err
    /\ chosen \in UsbPaths
    /\ session.drive_type = "usb"
    /\ DestRoot(session) # chosen

\* C11: on the drive page in removable mode Next is enabled only when no
\* drive check is unanswered, the drive clicked last has answered writable,
\* and the form would submit that drive's path
C11_NextOnlyForLastDriveProbed ==
    (page = "drive" /\ ui.type = "usb" /\ ui.nextOn) =>
        /\ probes = {}
        /\ ui.validated
        /\ ui.vpath = ui.last
        /\ ui.input = ui.last

\* on a progress page Next is enabled exactly when every item of the batch
\* shows an outcome
C12_Inv ==
    page = "progress" =>
        (batch.nextOn <=> \A k \in 1..Len(batch.list) : batch.status[k] \in Resolved)

\* once enabled, Next stays as it is until the page is left or loaded anew
C12_Step ==
    (page = "progress" /\ batch.nextOn /\ page' = "progress" /\ ~retryTiles)
        => batch' = batch

\* C12: on each progress page Next is disabled from page load while an item
\* of the batch has no outcome, and is enabled, once, when every item has
\* one (transferred, skipped or failed)
C12_NextWhenBatchThrough == []C12_Inv /\ [][C12_Step]_vars

\* an archive batch is through with a failed and a transferred item
C12_Witness ==
    /\ page = "progress"
    /\ cat = "wiki"
    /\ batch.nextOn
    /\ batch.status = <<"error", "done">>

\* C13: the finalizer runs once per wizard run, only when the completion
\* step is requested from the last download step and only in removable mode;
\* in local mode the completion step renames, unlinks and links nothing.
C13_Inv ==
    /\ fin.runs <= 1
    /\ fin.runs = 1 => session.drive_type = "usb" /\ page \notin {"index", "archives"}

C13_Step ==
    /\ fin'.runs > fin.runs =>
          /\ page = "archives" /\ page' \in {"complete", "http500"}
          /\ session.drive_type = "usb"
    /\ (page = "archives" /\ page' \in {"complete", "http500"}) =>
          IF session.drive_type = "usb"
          THEN fin'.runs = 1
          ELSE /\ fin'.runs = 0
               /\ fin'.local = fin.local
               /\ fin'.backups = fin.backups
               /\ fin'.links = fin.links

C13_FinalizerOncePerRunOnlyRemovable == []C13_Inv /\ [][C13_Step]_vars

C13_Witness ==
    /\ page = "complete" /\ fin.runs = 1 /\ cat = "tile"
    /\ fin.local = LinkTo(session.usb_path) /\ fin.backups = 1

\* the completion step ran the finalizer to its end
Finalized ==
    /\ page = "archives" /\ page' = "complete"
    /\ session.drive_type = "usb"

\* C14: tiles and regions: when the local path is a real directory and the
\* category's directory exists on the volume, the finalizer leaves the local
\* path a symlink to the volume's directory and the former directory under a
\* backup name; no step of the finalizer, finished or not, makes a real local
\* directory disappear without a backup of it appearing.
C14_Step ==
    /\ (Finalized /\ cat # "wiki" /\ fin.local = RealDir
          /\ UsbDirExists(session.usb_path, cat)) =>
          /\ fin'.local = LinkTo(session.usb_path)
          /\ fin'.backups = fin.backups + 1
    /\ fin'.backups >= fin.backups
    /\ (fin.local = RealDir /\ fin'.local # RealDir) => fin'.backups = fin.backups + 1

C14_RealDirectoryIsBackedUp == [][C14_Step]_vars

C14_Witness ==
    /\ page = "complete" /\ cat = "osm" /\ session.drive_type = "usb"
    /\ fin.local = LinkTo(session.usb_path) /\ fin.backups = 1
    /\ "Backed up" \in fin.results

\* C15: archives in removable mode: once the finalizer has gone through the
\* volume's archive directory, every archive on the volume has a local name
\* that is a symlink to it or a real local file; no local symlink is left
\* whose target does not exist; no name that is a real file has become a
\* symlink, and the real files are as they were.
C15_Step ==
    (Finalized /\ cat = "wiki" /\ UsbDirExists(session.usb_path, "wiki")) =>
        /\ \A i \in Catalog("wiki") :
              /\ files[session.usb_path][i].there =>
                    \/ fin'.links[i] = session.usb_path
                    \/ files'["home"][i].there /\ fin'.links[i] = ""
              /\ fin'.links[i] # "" => Exists(fin'.links[i], i)
              /\ files["home"][i].there => fin'.links[i] = ""
        /\ files'["home"] = files["home"]

C15_ArchivesLinkedRealFilesKept == [][C15_Step]_vars

C15_Witness ==
    /\ page = "complete" /\ cat = "wiki" /\ session.drive_type = "usb"
    /\ \E i, j \in Catalog("wiki") :
          /\ i # j
          /\ files[session.usb_path][i].there /\ files[session.usb_path][j].there
          /\ fin.links[i] = session.usb_path
          /\ files["home"][j].there /\ fin.links[j] = ""
    /\ "Removed broken link" \in fin.results

\* the completion step has been requested and has answered
CompletionAnswered == page = "archives" /\ page' \in {"complete", "http500"}

\* C16: a rename, unlink or symlink that fails in the finalizer is not
\* fatal: the completion step still leaves the marker in place and answers
\* with the completion page.
C16_Step == CompletionAnswered => (fin'.flag /\ page' = "complete")

C16_FinalizerErrorIsNotFatal == [][C16_Step]_vars

\* C17: the completion step creates the marker; a launch exits without
\* serving a step exactly when the marker exists and --force is not given.
C17_Inv == fin.proc = "exited" => page = "none"

C17_Step ==
    /\ CompletionAnswered => fin'.flag
    /\ (fin.proc = "off" /\ fin'.proc # "off") =>
          (fin'.proc = "exited" <=> (fin.flag /\ ~fin'.force))

C17_MarkerCreatedAndHonoured == []C17_Inv /\ [][C17_Step]_vars

\* C18: with the session state fixed, every resolution of the category's
\* destination directory gives the same path: a page load after a page load,
\* an endpoint call after an endpoint call, and the path a page shows against
\* the path the endpoint resolves to write under (which is under the root the
\* download steps write to); a page load creates no directory.
C18_Inv ==
    /\ (call.shown # NoDest /\ call.written # NoDest) => call.shown = call.written
    /\ call.written # NoDest => call.written.root = DestRoot(session)

C18_Step ==
    /\ (call.shown # NoDest /\ call'.shown # NoDest) => call'.shown = call.shown
    /\ (call.written # NoDest /\ call'.written # NoDest) => call'.written = call.written
    /\ call'.shown # call.shown => udirs' = udirs

C18_DestinationResolvedAlike == []C18_Inv /\ [][C18_Step]_vars

C18_Witness ==
    /\ session.drive_type = "usb" /\ session.usb_path \in UsbPaths
    /\ call.shown = [root |-> session.usb_path, dir |-> UsbSub(cat)]
    /\ call.written = call.shown
    /\ call.rsp.kind = "rsp" /\ call.rsp.success /\ ~call.rsp.skipped

\* the exit codes the claim gives a cause of their own
ClaimedCodes == {6, 7, 22, 23, 28}

\* the exit codes the table of category c's endpoint names
NamedCodes(c) == {6, 7, 22, 23, 28, 56} \cup (IF c = "osm" THEN {35, 52} ELSE {})

\* the transfer of the last call ended with a non-zero exit code
ExitFailed == call.out.kind = "exit" /\ call.out.code # 0

\* distinct codes of K have distinct messages in both tables
OwnCauses(K) ==
    \A a, b \in K : a # b =>
        /\ TileError(a) # TileError(b)
        /\ OsmError(a, FALSE) # OsmError(b, FALSE)

C20_NoFaultEscapesEndpoint == call.rsp.kind # "http500"


\* C21: every transfer the server runs, in every category, is under a
\* timeout: it can end by the timeout's expiry, so a transfer that never
\* completes still resolves its item.
C21_EveryTransferUnderTimeout ==
    \A x \in xfers : [kind |-> "timeout", code |-> 0, bytes |-> 0] \in Outcomes(cat, x)


\* C22: when the fetch of the remote listing fails, the catalog fetcher of
\* the region and of the archive category answers an empty item set together
\* with an error indicator.
C22_FetchFailureEmptyWithError ==
    call.listing.fo \in FetchOutcomes \ {"ok"} =>
        /\ call.listing.items = {}
        /\ call.listing.error


\* C25: an item of a selection list is annotated as downloaded exactly when
\* the destination directory resolved for the session's storage mode holds
\* the item's file; files of other directories have no part in it.
C25_Step ==
    (call'.listing # call.listing /\ call'.listing.fo = "ok") =>
        call'.listing.exists =
            {i \in call'.listing.items : Exists(PageDest(cat, session).root, i)}

C25_ExistsIffInDestination == [][C25_Step]_vars


----------------------------------------------------------------------------
(* Region extracts: size verification and cleanup *)

\* the transfer x of a region extract ends with o in a failure outcome:
\* non-zero exit, timeout, or exit 0 with the file missing or under-size
OsmFailureOutcome(x, o) ==
    \/ o.kind = "timeout"
    \/ o.code # 0
    \/ ~(Mounted(x.root) /\ files'[x.root][x.item].there)
    \/ files'[x.root][x.item].bytes < MinPbfBytes

\* a region transfer ends as a success only with a file of at least
\* MinPbfBytes at the final name
OsmAcceptsOnlyWhole(x, o) ==
    (x.live /\ net'.kind = "rsp" /\ net'.success) =>
        /\ o.kind = "exit" /\ o.code = 0
        /\ files'[x.root][x.item].there
        /\ files'[x.root][x.item].bytes >= MinPbfBytes

\* C26 as stated: a region transfer is accepted only with a file of at
\* least 1000 bytes at the final name, and after any failure outcome no file
\* remains at the final name.
C26_Step ==
    \A x \in xfers : \A o \in Outcomes(cat, x) :
        (cat = "osm" /\ curlEnds(x, o)) =>
            /\ OsmAcceptsOnlyWhole(x, o)
            /\ OsmFailureOutcome(x, o) =>
                  ~(Mounted(x.root) /\ files'[x.root][x.item].there)

C26_AmendedStep ==
    \A x \in xfers : \A o \in Outcomes(cat, x) :
        (cat = "osm" /\ curlEnds(x, o)) =>
            /\ OsmAcceptsOnlyWhole(x, o)
            /\ (OsmFailureOutcome(x, o) /\ CanWrite(x.root)) =>
                  ~files'[x.root][x.item].there
            /\ (x.live /\ o.kind = "exit" /\ o.code = 0 /\ o.bytes < MinPbfBytes) =>
                  net'.error = "Download incomplete"

C27_OneTransferPerTile ==
    cat = "tile" =>
        /\ \A x, y \in xfers : (x.item = y.item /\ x.root = y.root) => x = y
        /\ (net.kind = "rsp" /\ net.skipped) =>
              ~\E x \in xfers : x.item = net.item /\ x.root = DestRoot(session)


----------------------------------------------------------------------------
(* Submitted names *)

\* path p is a file inside directory dir
Inside(dir, p) == Len(p) > Len(dir) /\ SubSeq(p, 1, Len(dir)) = dir

\* C28: every file an endpoint makes lies inside the destination directory
\* resolved for its category, for every name the endpoint accepts.
C28_FilesInsideDestination ==
    call.file # <<>> => Inside(DestPath(call.written), call.file)

\* the tile endpoint makes a file only for a listed name, inside the tiles
\* directory (holds under SpecName)
TileFilesInsideDestination ==
    (cat = "tile" /\ call.file # <<>>) =>
        /\ Inside(DestPath(call.written), call.file)
        /\ <<call.file[Len(call.file)]>> \in TileNames


----------------------------------------------------------------------------
(* Finalizer run again *)

\* the local entries as the step leaves them
LocalAfter ==
    [local |-> fin'.local, backups |-> fin'.backups, links |-> fin'.links,
     results |-> {}, raised |-> FALSE]

\* C29: the finalizer run a second time right after a run that returned,
\* the volume as it was, leaves the local entries as the first run left
\* them: the same links, no further backup, and it does not raise.
C29_Step ==
    Finalized =>
        LET again == create_symlinks(session, cat, LocalAfter, "none") IN
        /\ again.local = LocalAfter.local
        /\ again.links = LocalAfter.links
        /\ again.backups = LocalAfter.backups
        /\ ~again.raised

C29_FinalizerIdempotent == [][C29_Step]_vars

C29_Witness ==
    /\ page = "complete" /\ cat = "tile" /\ session.drive_type = "usb"
    /\ fin.runs = 1 /\ fin.backups = 0
    /\ fin.local = LinkTo(session.usb_path)
    /\ "Linked" \in fin.results
    /\ UsbDirExists(session.usb_path, "tile")


----------------------------------------------------------------------------
(* et-radio and user.json: claims *)

\* C23: a /select naming an id whose profile file exists makes it the active
\* radio whatever was active before; a /select naming 'none' leaves no
\* pointer and no active radio; the profile list never holds the pointer's
\* own file.
C23_Inv == "active-radio" \notin load_radios(conf)

C23_Step ==
    \A id \in RequestIds :
        select_radio(id) =>
            /\ id \in conf.profiles => get_active_radio(conf') = id
            /\ id = "none" => conf'.link = "" /\ get_active_radio(conf') = "None"

C23_OneActiveRadio == []C23_Inv /\ [][C23_Step]_vars

C23_Witness ==
    /\ conf.profiles = RadioIds
    /\ conf.answer.asked = "ft891"
    /\ get_active_radio(conf) = "ft891"

\* C30: when /select answers success with a radio id, the active pointer
\* names that id afterwards.
C30_SuccessMeansActive ==
    (conf.answer.success /\ conf.answer.radio_id # "None") =>
        get_active_radio(conf) = conf.answer.radio_id

\* C24: the operator profile a load returns or a save writes has a callsign
\* that is there and not blank.
C24_CallsignNeverBlank ==
    conf.profile.src # "none" => conf.profile.callsign \notin {Absent, "", " "}

============================================================================
